---- MODULE Spec2Model ----
(***************************************************************************)
(* Spill-to-disk combine engine of crates/doc/src/combine/spill.rs:        *)
(* SpillWriter writes sorted segments as chunks to a spill file, Segment   *)
(* is a cursor over one segment, SpillDrainer merges all segments through  *)
(* a min-heap of cursors and hands one document per (binding, key) to a    *)
(* caller-supplied sink.                                                   *)
(***************************************************************************)
EXTENDS Integers, Sequences, FiniteSets, TLC

VARIABLES
    pc,            \* "write": a SpillWriter; "idle", "loop", "poll": a
                   \* SpillDrainer between calls, at the head of the outer
                   \* loop, in the inner loop; "panic"; "dead": new failed
    ranges,        \* SpillWriter.ranges: sequence of [start, end]
    spill,         \* the spill file: the chunks written, in file order
    offset,        \* file offset of the spill file (writer side)
    wret,          \* value returned by the last write_segment call
    wcall,         \* history: arguments and outcome of the last write_segment
                   \* call that wrote to the spill file or panicked
    heap,          \* SpillDrainer.heap: the live Segment cursors
    cur,           \* drain_while: the popped cursor `cur` (<<>> outside a group)
    doc,           \* drain_while: the accumulated document `doc`
    flags,         \* drain_while: the accumulated `flags`
    must_validate, \* drain_while: `must_validate`
    ret,           \* result of the last finished drain_while call
    delivered,     \* history: the sink invocations, in order
    smashed,       \* history: the reducer invocations, in order
    failed,        \* history: some drain_while call returned an error
    answer,        \* history: the last answer of the sink in the running call
    alloc          \* drain_while: the arena `alloc` of the group being merged

vars == <<pc, ranges, spill, offset, wret, wcall, heap, cur, doc, flags,
          must_validate, ret, delivered, smashed, failed, answer, alloc>>

(* ------------------------------ bounds --------------------------------- *)
MaxSegs    == 3   \* write_segment calls with a non-empty slice
MaxDocs    == 3   \* documents in the spill file, over all segments

(* The 8-byte chunk header: u32 lz4 length, u32 raw length. *)
HeaderLen == 8

(* chunk_target_size ranges the caller passes, as <<start, end>>. *)
ChunkTargets == { <<2, 3>>, <<6, 8>>, <<6, 6>> }

NoCursor == <<>>

(* HeapNode::new_allocator(): an arena and the roots built in it.  Outside *)
(* the body of the outer loop of drain_while no arena is alive.            *)
NoArena  == [live |-> FALSE, nodes |-> <<>>]
NewArena == [live |-> TRUE, nodes |-> <<>>]

(* The arena after smash built the root `root` in it. *)
Allocated(arena, root) == [arena EXCEPT !.nodes = Append(@, root)]
NoDoc    == <<>>

(* --------------------------- documents --------------------------------- *)
(* A document root.  A root read from the spill file is a leaf; `v` is its *)
(* content, which names the segment the document was written in.  A root   *)
(* built by the reducer keeps its two operands in `kids`.                  *)
Leaf(key, v) == [key |-> key, v |-> v, kids |-> <<>>]

(* HeapDoc / ArchivedDoc: binding, flags, root. *)
HeapDoc(binding, fl, root) == [binding |-> binding, flags |-> fl, root |-> root]

(* flags & FLAG_REDUCED != 0 *)
IsReduced(fl) == "REDUCED" \in fl

(* The (binding, key) pairs of the documents written, in ascending order. *)
KeyOrder == << <<0, 1>>, <<0, 2>>, <<1, 1>> >>

RECURSIVE SortedSlice(_, _, _, _)
(* The slice holding, for each position of S in ascending order, one       *)
(* document with the flags fl[i] and content v.                            *)
SortedSlice(S, fl, v, i) ==
    IF i > Len(KeyOrder) THEN <<>>
    ELSE IF i \in S
         THEN <<HeapDoc(KeyOrder[i][1], fl[i], Leaf(KeyOrder[i][2], v))>>
                \o SortedSlice(S, fl, v, i + 1)
         ELSE SortedSlice(S, fl, v, i + 1)

(* Extractor::compare_key on two roots: -1, 0 or 1. *)
CompareKey(lhs, rhs) ==
    IF lhs.key < rhs.key THEN -1 ELSE IF lhs.key > rhs.key THEN 1 ELSE 0

(* --------------------------- encoding ---------------------------------- *)
(* root.to_archive().len(): the archived size of one root. *)
RootLen(root) == root.key + 1

RECURSIVE RawLen(_)
(* Length of the rkyv archive of a slice of documents (raw_buf.len()). *)
RawLen(docs) ==
    IF docs = <<>> THEN 0
    ELSE RootLen(Head(docs).root) + 1 + RawLen(Tail(docs))

(* Length of the LZ4 block compressed from a raw buffer of the given size. *)
Lz4Len(raw) == (raw \div 2) + 1

Min(a, b) == IF a < b THEN a ELSE b
Max(a, b) == IF a > b THEN a ELSE b

(* ------------------------- SpillWriter --------------------------------- *)
(* No write_segment call wrote to the file yet (or the writer was         *)
(* consumed by into_parts).                                                *)
NoCall == [segment |-> <<>>, cts |-> <<0, 0>>, result |-> "none"]

(* chunk_docs with a lower clamp of two documents. *)
ChunkDocsAtLeastTwo(segment, last_bytes_per_doc, cts) ==
    Min(Max(2, cts[1] \div last_bytes_per_doc), Len(segment))

(* chunk_docs: the documents of the next candidate chunk. *)
ChunkDocs(segment, last_bytes_per_doc, cts) ==
    Min(Max(1, cts[1] \div last_bytes_per_doc), Len(segment))

(* The retry condition tested on chunks of more than two documents only. *)
TooLargeOverTwo(chunk_docs, raw_len, cts) ==
    chunk_docs > 2 /\ raw_len > cts[2]

(* The retry condition without the test of chunk_docs. *)
TooLargeAnyCount(chunk_docs, raw_len, cts) ==
    raw_len > cts[2]

(* `if chunk_docs > 1 && raw_buf.len() > chunk_target_size.end` *)
TooLarge(chunk_docs, raw_len, cts) ==
    chunk_docs > 1 /\ raw_len > cts[2]

(* A header whose lz4 length counts the header itself. *)
ChunkBadHeader(off, chunk, raw_len, n) ==
    [off |-> off, lz4_len |-> n + HeaderLen, raw_len |-> raw_len, docs |-> chunk]

(* The bytes of one chunk at the file offset off: the header with the lz4  *)
(* length n and the raw length, then the compressed archive of `chunk`.    *)
Chunk(off, chunk, raw_len, n) ==
    [off |-> off, lz4_len |-> n, raw_len |-> raw_len, docs |-> chunk]

(* The rest of the slice that skips one document after the chunk. *)
RemainingSkips(segment, chunk_docs) ==
    SubSeq(segment, Min(chunk_docs + 2, Len(segment) + 1), Len(segment))

(* `segment = &segment[chunk_docs..]` *)
Remaining(segment, chunk_docs) ==
    SubSeq(segment, chunk_docs + 1, Len(segment))

RECURSIVE WriteChunks(_, _, _, _, _)
(* The `while !segment.is_empty()` loop of write_segment and the seek that *)
(* follows it.  st holds the chunks written so far, the file offset, the   *)
(* candidate chunks tried so far and the position `at` in the slice;       *)
(* fail_at is the number of chunks written before an I/O operation fails   *)
(* (-1: none fails).  The status is "ok", "err" for an I/O error, or       *)
(* "panic" if the assertion of the retry branch fails.                     *)
WriteChunks(segment, last_bytes_per_doc, cts, st, fail_at) ==
    IF segment = <<>>
    THEN [status |-> IF Len(st.chunks) = fail_at THEN "err" ELSE "ok",
          chunks |-> st.chunks, off |-> st.off, tries |-> st.tries]
    ELSE
      LET chunk_docs == ChunkDocs(segment, last_bytes_per_doc, cts)
          chunk      == SubSeq(segment, 1, chunk_docs)
          raw_len    == RawLen(chunk)
          cur_bytes_per_doc == raw_len \div chunk_docs
          try(acc)   == [at |-> st.at, chunk_docs |-> chunk_docs,
                         last |-> last_bytes_per_doc, raw_len |-> raw_len,
                         accepted |-> acc]
      IN  IF TooLarge(chunk_docs, raw_len, cts)
          THEN IF cur_bytes_per_doc > last_bytes_per_doc
               THEN WriteChunks(segment, cur_bytes_per_doc, cts,
                                [st EXCEPT !.tries = Append(@, try(FALSE))],
                                fail_at)
               ELSE [status |-> "panic", chunks |-> st.chunks, off |-> st.off,
                     tries |-> Append(st.tries, try(FALSE))]
          ELSE IF Len(st.chunks) = fail_at
               THEN [status |-> "err", chunks |-> st.chunks, off |-> st.off,
                     tries |-> Append(st.tries, try(TRUE))]
               ELSE LET n == Lz4Len(raw_len)
                    IN  WriteChunks(Remaining(segment, chunk_docs),
                                    cur_bytes_per_doc, cts,
                                    [chunks |-> Append(st.chunks,
                                                  Chunk(st.off, chunk, raw_len, n)),
                                     off    |-> st.off + HeaderLen + n,
                                     tries  |-> Append(st.tries, try(TRUE)),
                                     at     |-> st.at + chunk_docs],
                                    fail_at)

RECURSIVE DocCount(_)
DocCount(chunks) ==
    IF chunks = <<>> THEN 0 ELSE Len(Head(chunks).docs) + DocCount(Tail(chunks))

(* The empty slice falling through to the end of write_segment. *)
ReturnZeroRecordsRange ==
    /\ wret' = 0
    /\ ranges' = Append(ranges, [start |-> offset, end |-> offset])
    /\ UNCHANGED <<pc, spill, offset, wcall>>

(* `if segment.is_empty() { return Ok(0) }` *)
ReturnZero ==
    /\ wret' = 0
    /\ UNCHANGED <<pc, ranges, spill, offset, wcall>>

(* The end of write_segment returning the end offset. *)
FinishReturnsEnd(begin, end) ==
    /\ ranges' = Append(ranges, [start |-> begin, end |-> end])
    /\ wret' = end

(* The end of write_segment recording the range from the start of the file. *)
FinishRangeFromZero(begin, end) ==
    /\ ranges' = Append(ranges, [start |-> 0, end |-> end])
    /\ wret' = end - begin

(* The end of write_segment recording the range from the end of the last   *)
(* recorded range.                                                         *)
FinishRangeFromLastEnd(begin, end) ==
    /\ ranges' = Append(ranges,
                        [start |-> IF ranges = <<>> THEN 0
                                   ELSE ranges[Len(ranges)].end,
                         end   |-> end])
    /\ wret' = end - begin

(* `self.ranges.push(begin..end); Ok(end - begin)` *)
Finish(begin, end) ==
    /\ ranges' = Append(ranges, [start |-> begin, end |-> end])
    /\ wret' = end - begin

(* SpillWriter::write_segment *)
WriteSegment(segment, cts) ==
    /\ pc = "write"
    /\ IF segment = <<>>
       THEN ReturnZero
       ELSE \E fail_at \in -1..Len(segment) :
              LET begin == offset
                  w     == WriteChunks(segment, RootLen(segment[1].root), cts,
                                       [chunks |-> <<>>, off |-> offset,
                                        tries |-> <<>>, at |-> 0],
                                       fail_at)
              IN  /\ spill' = spill \o w.chunks
                  /\ offset' = w.off
                  /\ wcall' = IF w.status = "err" /\ w.chunks = <<>>
                              THEN wcall
                              ELSE [segment |-> segment, cts |-> cts,
                                    result |-> w.status]
                  /\ IF w.status = "ok"
                     THEN Finish(begin, w.off) /\ pc' = pc
                     ELSE /\ pc' = IF w.status = "panic" THEN "panic" ELSE pc
                          /\ UNCHANGED <<ranges, wret>>
    /\ UNCHANGED <<heap, cur, doc, flags, must_validate, ret, delivered,
                   smashed, failed, answer, alloc>>

(* The slices a caller writes: sorted, at most one document per            *)
(* (binding, key), the content naming the segment.                         *)
Write ==
    /\ Len(ranges) < MaxSegs
    /\ \E S \in SUBSET (1..Len(KeyOrder)) :
         /\ DocCount(spill) + Cardinality(S) <= MaxDocs
         /\ \E fl \in [S -> {{}, {"REDUCED"}}], cts \in ChunkTargets :
              WriteSegment(SortedSlice(S, fl, Len(ranges) + 1, 1), cts)

(* ---------------------------- Segment ---------------------------------- *)
(* The chunk whose header is at the given file offset. *)
ChunkAt(off) == CHOOSE i \in 1..Len(spill) : spill[i].off = off

HasChunkAt(off) == \E i \in 1..Len(spill) : spill[i].off = off

(* Range<u64>::is_empty *)
IsEmpty(range) == range.start >= range.end

(* The assertions of Segment::new hold for the chunk at range.start. *)
SegmentNewOk(range) ==
    /\ range.start # range.end
    /\ HasChunkAt(range.start)
    /\ LET c == spill[ChunkAt(range.start)]
       IN  /\ range.start + HeaderLen + c.lz4_len <= range.end
           /\ RawLen(c.docs) = c.raw_len
           /\ Len(c.docs) # 0

(* Segment::new computing the next offset without the header bytes. *)
SegmentNewSkipsHeader(range) ==
    LET c == spill[ChunkAt(range.start)]
    IN  [docs |-> c.docs,
         next |-> [start |-> range.start + c.lz4_len,
                   end   |-> range.end]]

(* Segment::new: the cursor over the chunk at range.start. *)
SegmentNew(range) ==
    LET c == spill[ChunkAt(range.start)]
    IN  [docs |-> c.docs,
         next |-> [start |-> range.start + HeaderLen + c.lz4_len,
                   end   |-> range.end]]

(* Segment::head *)
SegHead(seg) == seg.docs[1]

(* Segment::next reading the file whenever one document remains, also at   *)
(* the end of the range.                                                   *)
NextReadsAtEnd(seg) == Len(seg.docs) = 1

(* Segment::next reads the spill file (and so can fail or panic). *)
NextReads(seg) == Len(seg.docs) = 1 /\ ~IsEmpty(seg.next)

(* Segment::next that takes the in-chunk branch only while more than two   *)
(* documents remain, so the last document of a chunk is dropped.           *)
SegNextOffByOne(seg) ==
    IF Len(seg.docs) > 2
    THEN {[docs |-> Tail(seg.docs), next |-> seg.next]}
    ELSE IF ~IsEmpty(seg.next) THEN {SegmentNew(seg.next)} ELSE {}

(* Segment::next without an I/O error: the set holding the advanced        *)
(* cursor, or the empty set for Ok(None).                                  *)
SegNext(seg) ==
    IF Len(seg.docs) # 1
    THEN {[docs |-> Tail(seg.docs), next |-> seg.next]}
    ELSE IF ~IsEmpty(seg.next) THEN {SegmentNew(seg.next)} ELSE {}

(* Ord for Segment comparing the key before the binding. *)
SegCmpKeyFirst(self, other) ==
    LET lhs == SegHead(self)
        rhs == SegHead(other)
    IN  IF CompareKey(lhs.root, rhs.root) # 0
        THEN CompareKey(lhs.root, rhs.root)
        ELSE IF lhs.binding # rhs.binding
             THEN (IF lhs.binding < rhs.binding THEN -1 ELSE 1)
             ELSE IF self.next.start < other.next.start THEN -1
                  ELSE IF self.next.start > other.next.start THEN 1 ELSE 0

(* Ord for Segment with the operands of the offset comparison exchanged. *)
SegCmpReversedTie(self, other) ==
    LET lhs == SegHead(self)
        rhs == SegHead(other)
    IN  IF lhs.binding # rhs.binding
        THEN (IF lhs.binding < rhs.binding THEN -1 ELSE 1)
        ELSE IF CompareKey(lhs.root, rhs.root) # 0
             THEN CompareKey(lhs.root, rhs.root)
             ELSE IF other.next.start < self.next.start THEN -1
                  ELSE IF other.next.start > self.next.start THEN 1 ELSE 0

(* Ord for Segment: -1, 0 or 1. *)
SegCmp(self, other) ==
    LET lhs == SegHead(self)
        rhs == SegHead(other)
    IN  IF lhs.binding # rhs.binding
        THEN (IF lhs.binding < rhs.binding THEN -1 ELSE 1)
        ELSE IF CompareKey(lhs.root, rhs.root) # 0
             THEN CompareKey(lhs.root, rhs.root)
             ELSE IF self.next.start < other.next.start THEN -1
                  ELSE IF self.next.start > other.next.start THEN 1 ELSE 0

(* BinaryHeap<Reverse<Segment>>: the cursors pop() / peek() may yield. *)
HeapTop(h) == { s \in h : \A o \in h : SegCmp(s, o) <= 0 }

(* ------------------------- collaborators ------------------------------- *)
(* super::smash on success: the merged root and flags.  The merged root   *)
(* keeps its two operands in call order; `swap` records that the right     *)
(* operand was a REDUCED document and the left one was not, in which case  *)
(* the reduction takes the right operand as its base.                      *)
Smash(lhs_doc, lhs_flags, rhs_doc, rhs_flags) ==
    [root  |-> [key |-> lhs_doc.key, v |-> 0, kids |-> <<lhs_doc, rhs_doc>>,
                swap |-> ~IsReduced(lhs_flags) /\ IsReduced(rhs_flags)],
     flags |-> lhs_flags \cup rhs_flags]

(* ------------------------- SpillDrainer -------------------------------- *)
(* A drain_while call returns Err(e): the locals of the group are dropped. *)
ReturnErr(e) ==
    /\ ret' = e
    /\ pc' = "idle"
    /\ failed' = TRUE
    /\ cur' = NoCursor
    /\ doc' = NoDoc
    /\ flags' = {}
    /\ must_validate' = FALSE
    /\ alloc' = NoArena

(* A failed advance that is swallowed: the cursor is dropped and the loop  *)
(* goes on.                                                                *)
AdvanceFailsRetried(seg) ==
    /\ NextReads(seg)
    /\ pc' = "loop"
    /\ cur' = NoCursor
    /\ doc' = NoDoc
    /\ flags' = {}
    /\ must_validate' = FALSE
    /\ alloc' = NoArena
    /\ UNCHANGED <<ret, failed>>

(* `seg.next(&mut self.spill)?` fails on a read or seek of the spill file: *)
(* the call returns Err(Error::SpillIO).                                   *)
AdvanceFails(seg) ==
    /\ NextReads(seg)
    /\ ReturnErr("SpillIO")

(* SpillWriter::into_parts followed by SpillDrainer::new. *)
NewDrainer ==
    /\ pc = "write"
    /\ \/ /\ \A i \in 1..Len(ranges) : SegmentNewOk(ranges[i])
          /\ heap' = { SegmentNew(ranges[i]) : i \in 1..Len(ranges) }
          /\ pc' = "idle"
       \/ /\ \E i \in 1..Len(ranges) : ~SegmentNewOk(ranges[i])
          /\ pc' = "panic"
          /\ heap' = heap
       \/ /\ ranges # <<>>          \* a seek or read of Segment::new fails
          /\ pc' = "dead"
          /\ heap' = heap
    /\ wcall' = NoCall
    /\ UNCHANGED <<ranges, spill, offset, wret, cur, doc, flags, must_validate,
                   ret, delivered, smashed, failed, answer, alloc>>

(* A caller calls drain_while. *)
DrainWhile ==
    /\ pc = "idle"
    /\ pc' = "loop"
    /\ answer' = "none"
    /\ UNCHANGED <<ranges, spill, offset, wret, wcall, heap, cur, doc, flags,
                   must_validate, ret, delivered, smashed, failed,
                   alloc>>

(* The head of the outer loop taking the cursor with peek(), which leaves  *)
(* it in the heap.                                                         *)
LoopPopPeeks ==
    /\ pc = "loop"
    /\ heap # {}
    /\ \E c \in HeapTop(heap) :
         /\ heap' = heap
         /\ cur' = c
         /\ doc' = SegHead(c).root
         /\ flags' = SegHead(c).flags
    /\ must_validate' = FALSE
    /\ alloc' = NewArena
    /\ pc' = "poll"
    /\ UNCHANGED <<ranges, spill, offset, wret, wcall, ret, delivered, smashed,
                   failed, answer>>

(* `while let Some(Reverse(cur)) = self.heap.pop()`: a cursor is popped. *)
LoopPop ==
    /\ pc = "loop"
    /\ heap # {}
    /\ \E c \in HeapTop(heap) :
         /\ heap' = heap \ {c}
         /\ cur' = c
         /\ doc' = SegHead(c).root
         /\ flags' = SegHead(c).flags
    /\ must_validate' = FALSE
    /\ alloc' = NewArena
    /\ pc' = "poll"
    /\ UNCHANGED <<ranges, spill, offset, wret, wcall, ret, delivered, smashed,
                   failed, answer>>

(* The end of the outer loop returning Ok(true). *)
LoopExitReturnsTrue ==
    /\ pc = "loop"
    /\ heap = {}
    /\ ret' = "true"
    /\ pc' = "idle"
    /\ UNCHANGED <<ranges, spill, offset, wret, wcall, heap, cur, doc, flags,
                   must_validate, delivered, smashed, failed,
                   answer, alloc>>

(* The heap is empty at the head of the loop: Ok(false). *)
LoopExit ==
    /\ pc = "loop"
    /\ heap = {}
    /\ ret' = "false"
    /\ pc' = "idle"
    /\ UNCHANGED <<ranges, spill, offset, wret, wcall, heap, cur, doc, flags,
                   must_validate, delivered, smashed, failed,
                   answer, alloc>>

(* The condition of the inner loop folding only documents that are not    *)
(* REDUCED into the accumulator.                                           *)
TiedPartialOnly(peek) ==
    /\ SegHead(cur).binding = SegHead(peek).binding
    /\ CompareKey(doc, SegHead(peek).root) = 0
    /\ ~IsReduced(SegHead(peek).flags)

(* The condition of the inner loop also requiring equal flags. *)
TiedSameFlags(peek) ==
    /\ SegHead(cur).binding = SegHead(peek).binding
    /\ CompareKey(doc, SegHead(peek).root) = 0
    /\ flags = SegHead(peek).flags

(* The condition of the inner `while matches!(self.heap.peek(), ...)`. *)
Tied(peek) ==
    /\ SegHead(cur).binding = SegHead(peek).binding
    /\ CompareKey(doc, SegHead(peek).root) = 0

(* The smash invocation with the accumulator as the right operand. *)
SmashCallSwapped(other) ==
    [binding   |-> SegHead(cur).binding,
     lhs       |-> SegHead(other).root,
     lhs_flags |-> SegHead(other).flags,
     rhs       |-> doc,
     rhs_flags |-> flags]

(* The arguments of the smash invocation for the popped cursor `other`. *)
SmashCall(other) ==
    [binding   |-> SegHead(cur).binding,
     lhs       |-> doc,
     lhs_flags |-> flags,
     rhs       |-> SegHead(other).root,
     rhs_flags |-> SegHead(other).flags]

(* The accumulation without `must_validate = true`. *)
AccumulateNoValidate(out) ==
    /\ doc' = out.root
    /\ flags' = out.flags
    /\ must_validate' = must_validate

(* (doc, flags) = (out.root, out.flags) ... must_validate = true *)
Accumulate(out) ==
    /\ doc' = out.root
    /\ flags' = out.flags
    /\ must_validate' = TRUE

(* One pass of the inner loop: the tied cursor is popped and reduced into  *)
(* the accumulated document.                                               *)
PollReduce ==
    /\ pc = "poll"
    /\ \E other \in HeapTop(heap) :
         /\ Tied(other)
         /\ smashed' = Append(smashed, SmashCall(other))
         /\ \/ /\ ReturnErr("Reduction")            \* smash(..)? fails
               /\ heap' = heap \ {other}
            \/ /\ AdvanceFails(other)               \* other.next(..) fails
               /\ heap' = heap \ {other}
            \/ /\ NextReads(other)
               /\ ~SegmentNewOk(other.next)
               /\ pc' = "panic"
               /\ heap' = heap \ {other}
               /\ UNCHANGED <<cur, doc, flags, must_validate, ret, failed,
                             alloc>>
            \/ /\ NextReads(other) => SegmentNewOk(other.next)
               /\ LET call == SmashCall(other)
                  IN  Accumulate(Smash(call.lhs, call.lhs_flags,
                                       call.rhs, call.rhs_flags))
               /\ heap' = (heap \ {other}) \cup SegNext(other)
               /\ UNCHANGED <<pc, cur, ret, failed>>
               /\ LET call == SmashCall(other)
                  IN  alloc' = Allocated(alloc, Smash(call.lhs, call.lhs_flags,
                                                      call.rhs, call.rhs_flags).root)
    /\ UNCHANGED <<ranges, spill, offset, wret, wcall, delivered, answer>>

(* The sink invocation whose third argument tells whether a reduction      *)
(* took place in this drain.                                               *)
DeliveryMergedFlag ==
    [binding   |-> SegHead(cur).binding,
     doc       |-> doc,
     reduced   |-> must_validate,
     validated |-> must_validate]

(* The sink invocation callback(binding, doc, flags & FLAG_REDUCED != 0);  *)
(* `validated` records whether validate_ok ran on the document before.     *)
Delivery ==
    [binding   |-> SegHead(cur).binding,
     doc       |-> doc,
     reduced   |-> IsReduced(flags),
     validated |-> must_validate]

(* The validation placed after the sink invocation. *)
ValidateFailsAfterSink ==
    /\ must_validate
    /\ \E e \in {"SchemaError", "FailedValidation"} : ReturnErr(e)
    /\ delivered' = Append(delivered, Delivery)
    /\ UNCHANGED <<heap, answer>>

(* The failed validation pushing the popped cursor back before it returns. *)
ValidateFailsRestores ==
    /\ must_validate
    /\ \E e \in {"SchemaError", "FailedValidation"} : ReturnErr(e)
    /\ heap' = heap \cup {cur}
    /\ UNCHANGED <<delivered, answer>>

(* `if must_validate { doc.validate_ok(..)?? }` fails: the call returns    *)
(* the error before the sink is reached.                                   *)
ValidateFails ==
    /\ must_validate
    /\ \E e \in {"SchemaError", "FailedValidation"} : ReturnErr(e)
    /\ UNCHANGED <<heap, delivered, answer>>

(* `if done { return Ok(true) }` placed before the advance of `cur`. *)
EmitFinishEarlyReturn(done) ==
    /\ heap' = IF done THEN heap ELSE heap \cup SegNext(cur)
    /\ IF done THEN pc' = "idle" /\ ret' = "true"
               ELSE pc' = "loop" /\ ret' = ret
    /\ cur' = NoCursor
    /\ doc' = NoDoc
    /\ flags' = {}
    /\ must_validate' = FALSE
    /\ alloc' = NoArena
    /\ failed' = failed

(* `if done { return Ok(!self.heap.is_empty()) }` *)
EmitFinishHeapResult(done) ==
    /\ heap' = heap \cup SegNext(cur)
    /\ IF done THEN /\ pc' = "idle"
                    /\ ret' = IF heap' # {} THEN "true" ELSE "false"
               ELSE pc' = "loop" /\ ret' = ret
    /\ cur' = NoCursor
    /\ doc' = NoDoc
    /\ flags' = {}
    /\ must_validate' = FALSE
    /\ alloc' = NoArena
    /\ failed' = failed

(* `if done { return Ok(false) }` *)
EmitFinishNotDone(done) ==
    /\ heap' = heap \cup SegNext(cur)
    /\ IF done THEN pc' = "idle" /\ ret' = "false"
               ELSE pc' = "loop" /\ ret' = ret
    /\ cur' = NoCursor
    /\ doc' = NoDoc
    /\ flags' = {}
    /\ must_validate' = FALSE
    /\ alloc' = NoArena
    /\ failed' = failed

(* The loop going on whatever the sink answered. *)
EmitFinishIgnoreDone(done) ==
    /\ heap' = heap \cup SegNext(cur)
    /\ pc' = "loop"
    /\ ret' = ret
    /\ cur' = NoCursor
    /\ doc' = NoDoc
    /\ flags' = {}
    /\ must_validate' = FALSE
    /\ alloc' = NoArena
    /\ failed' = failed

(* The cursor of the delivered document pushed back without the advance. *)
EmitFinishKeepsCursor(done) ==
    /\ heap' = heap \cup {cur}
    /\ IF done THEN pc' = "idle" /\ ret' = "true"
               ELSE pc' = "loop" /\ ret' = ret
    /\ cur' = NoCursor
    /\ doc' = NoDoc
    /\ flags' = {}
    /\ must_validate' = FALSE
    /\ alloc' = NoArena
    /\ failed' = failed

(* The arena declared outside the loop, so that it outlives the group. *)
EmitFinishKeepsArena(done) ==
    /\ heap' = heap \cup SegNext(cur)
    /\ IF done THEN pc' = "idle" /\ ret' = "true"
               ELSE pc' = "loop" /\ ret' = ret
    /\ cur' = NoCursor
    /\ doc' = NoDoc
    /\ flags' = {}
    /\ must_validate' = FALSE
    /\ alloc' = alloc
    /\ failed' = failed

(* After the sink answered: `cur` is advanced and pushed back, then the    *)
(* call returns Ok(true) if `done`, else the outer loop goes on.           *)
EmitFinish(done) ==
    /\ heap' = heap \cup SegNext(cur)
    /\ IF done THEN pc' = "idle" /\ ret' = "true"
               ELSE pc' = "loop" /\ ret' = ret
    /\ cur' = NoCursor
    /\ doc' = NoDoc
    /\ flags' = {}
    /\ must_validate' = FALSE
    /\ alloc' = NoArena
    /\ failed' = failed

(* The rest of the outer loop body once no cursor of the heap ties:        *)
(* validation, the sink, the advance of `cur`, and the return or the next  *)
(* pass.                                                                   *)
Emit ==
    /\ pc = "poll"
    /\ \A peek \in HeapTop(heap) : ~Tied(peek)
    /\ \/ ValidateFails
       \/ /\ delivered' = Append(delivered, Delivery)
          /\ \/ /\ answer' = "err"                  \* the sink returns Err
                /\ ReturnErr("Callback")
                /\ heap' = heap
             \/ \E done \in BOOLEAN :
                  /\ answer' = IF done THEN "false" ELSE "true"
                  /\ \/ /\ AdvanceFails(cur)        \* cur.next(..) fails
                        /\ heap' = heap
                     \/ /\ NextReads(cur)
                        /\ ~SegmentNewOk(cur.next)
                        /\ pc' = "panic"
                        /\ UNCHANGED <<heap, cur, doc, flags, must_validate,
                                       ret, failed, alloc>>
                     \/ /\ NextReads(cur) => SegmentNewOk(cur.next)
                        /\ EmitFinish(done)
    /\ UNCHANGED <<ranges, spill, offset, wret, wcall, smashed>>

Init ==
    /\ pc = "write"
    /\ ranges = <<>>
    /\ spill = <<>>
    /\ offset = 0
    /\ wret = 0
    /\ wcall = NoCall
    /\ heap = {}
    /\ cur = NoCursor
    /\ doc = NoDoc
    /\ flags = {}
    /\ must_validate = FALSE
    /\ ret = "none"
    /\ delivered = <<>>
    /\ smashed = <<>>
    /\ failed = FALSE
    /\ answer = "none"
    /\ alloc = NoArena

Next ==
    \/ Write
    \/ NewDrainer
    \/ DrainWhile
    \/ LoopPop
    \/ LoopExit
    \/ PollReduce
    \/ Emit

Spec == Init /\ [][Next]_vars

(* The drain under its scheduling: drain_while is synchronous code, so a   *)
(* call that started takes its next step, and the caller of the drain      *)
(* loop calls drain_while again after each return.                         *)
DrainStep == DrainWhile \/ LoopPop \/ LoopExit \/ PollReduce \/ Emit

LiveSpec == Spec /\ WF_vars(DrainStep)
(* ======================= properties of the drain ======================= *)
(* The documents of the chunks of a sequence of chunks, in file order. *)
RECURSIVE Flatten(_)
Flatten(chunks) ==
    IF chunks = <<>> THEN <<>> ELSE Head(chunks).docs \o Flatten(Tail(chunks))

(* The chunks written inside ranges[i], and their documents. *)
SegChunks(i) ==
    SelectSeq(spill, LAMBDA c : ranges[i].start <= c.off /\ c.off < ranges[i].end)

SegDocs(i) == Flatten(SegChunks(i))

DocKey(d) == <<d.binding, d.root.key>>

(* The segments, by write order, that hold a document of (binding, key). *)
Holders(bk) ==
    { i \in 1..Len(ranges) :
        \E j \in 1..Len(SegDocs(i)) : DocKey(SegDocs(i)[j]) = bk }

DocOf(i, bk) ==
    LET ds == SegDocs(i) IN ds[CHOOSE j \in 1..Len(ds) : DocKey(ds[j]) = bk]

FileKeys ==
    UNION { { DocKey(SegDocs(i)[j]) : j \in 1..Len(SegDocs(i)) } :
            i \in 1..Len(ranges) }

DeliveredKey(d) == <<d.binding, d.doc.key>>

KeyLess(a, b) == a[1] < b[1] \/ (a[1] = b[1] /\ a[2] < b[2])

(* The contents of the documents a root was built from, left to right. *)
RECURSIVE Leaves(_)
Leaves(root) ==
    IF root.kids = <<>> THEN <<root.v>>
    ELSE Leaves(root.kids[1]) \o Leaves(root.kids[2])

RECURSIVE IsLeftComb(_)
IsLeftComb(root) ==
    \/ root.kids = <<>>
    \/ /\ root.kids[2].kids = <<>>
       /\ IsLeftComb(root.kids[1])

(* The elements of a set of integers in ascending order. *)
RECURSIVE AscSeq(_)
AscSeq(S) ==
    IF S = {} THEN <<>>
    ELSE LET m == CHOOSE x \in S : \A y \in S : x <= y
         IN  <<m>> \o AscSeq(S \ {m})

(* reduce(...reduce(reduce(d1, d2), d3)..., dk) over the documents of      *)
(* (binding, key) in the segments idx, taken left to right.                *)
RECURSIVE FoldLeft(_, _, _)
FoldLeft(acc, idx, bk) ==
    IF idx = <<>> THEN acc
    ELSE LET d == DocOf(Head(idx), bk)
         IN  FoldLeft(Smash(acc.root, acc.flags, d.root, d.flags), Tail(idx), bk)

Reduced(bk) ==
    LET idx == AscSeq(Holders(bk))
        d1  == DocOf(Head(idx), bk)
    IN  FoldLeft([root |-> d1.root, flags |-> d1.flags], Tail(idx), bk)

Draining == pc \in {"idle", "loop", "poll"}

(* C1: the (binding, key) pairs passed to the sink, over all drain_while   *)
(* calls of one drainer and whatever the sink answered, are strictly       *)
(* ascending: no delivery has a smaller or an equal (binding, key) than an *)
(* earlier one.                                                            *)
C1_StrictlyAscending ==
    \A i, j \in 1..Len(delivered) :
        i < j => KeyLess(DeliveredKey(delivered[i]), DeliveredKey(delivered[j]))

(* Deliveries of two bindings, spread over at least two calls. *)
C1_Witness ==
    /\ pc = "idle" /\ ret = "true" /\ answer = "false"
    /\ Len(delivered) = 3
    /\ \E i, j \in 1..Len(delivered) :
         delivered[i].binding # delivered[j].binding

(* C2: once a drain was driven to Ok(false) without an error, each         *)
(* (binding, key) of the spill file was delivered exactly once, and the    *)
(* delivered document is built from the documents of exactly the segments  *)
(* that hold the key, each of them used once.                              *)
C2_ExactlyOnce ==
    (pc = "idle" /\ ret = "false" /\ ~failed) =>
        /\ { DeliveredKey(delivered[i]) : i \in 1..Len(delivered) } = FileKeys
        /\ Len(delivered) = Cardinality(FileKeys)
        /\ \A i \in 1..Len(delivered) :
             LET L == Leaves(delivered[i].doc)
                 H == Holders(DeliveredKey(delivered[i]))
             IN  /\ Len(L) = Cardinality(H)
                 /\ { L[j] : j \in 1..Len(L) } = H

(* A finished drain of a multi-document chunk and of a key held twice. *)
C2_Witness ==
    /\ pc = "idle" /\ ret = "false" /\ ~failed
    /\ Len(delivered) >= 2
    /\ \E i \in 1..Len(delivered) : Len(Leaves(delivered[i].doc)) >= 2
    /\ \E i \in 1..Len(spill) : Len(spill[i].docs) >= 2

(* C3: every reducer invocation has the accumulator as its left operand    *)
(* and a document read from a later segment as its right operand, the      *)
(* accumulator being itself such a left-to-right chain; on a drainer none  *)
(* of whose calls returned an error the operands are the documents of the  *)
(* first segments that hold the key, in write order and none skipped, so   *)
(* a key held by segments S1..Sk is delivered as                           *)
(* reduce(...reduce(reduce(d1, d2), d3)..., dk) and in no other order or   *)
(* association.                                                            *)
C3_LeftToRight ==
    /\ [](/\ \A i \in 1..Len(smashed) :
              LET c == smashed[i]
                  H == Holders(<<c.binding, c.lhs.key>>)
                  L == Leaves(c.lhs) \o Leaves(c.rhs)
              IN  /\ c.rhs.kids = <<>>
                  /\ IsLeftComb(c.lhs)
                  /\ \A j \in 1..Len(L) : L[j] \in H
                  /\ \A j \in 1..(Len(L) - 1) : L[j] < L[j + 1]
          /\ ~failed =>
               \A i \in 1..Len(delivered) :
                   delivered[i].doc = Reduced(DeliveredKey(delivered[i])).root)
    /\ [][(~failed /\ smashed' # smashed) =>
            LET c == smashed'[Len(smashed')]
                H == Holders(<<c.binding, c.lhs.key>>)
                L == Leaves(c.lhs) \o Leaves(c.rhs)
            IN  L = SubSeq(AscSeq(H), 1, Len(L))]_vars

(* A document reduced from three segments was delivered. *)
C3_Witness ==
    \E i \in 1..Len(delivered) : Len(Leaves(delivered[i].doc)) >= 3

(* The cursors alive in a drain, and the segment a cursor reads. *)
LiveCursors == heap \cup (IF cur = NoCursor THEN {} ELSE {cur})

SegIndex(seg) ==
    CHOOSE i \in 1..Len(ranges) :
        ranges[i].start < seg.next.start /\ seg.next.start <= ranges[i].end

CmpInt(a, b) == IF a < b THEN -1 ELSE IF a > b THEN 1 ELSE 0

ByStartOffset(a, b) ==
    LET ha == SegHead(a)
        hb == SegHead(b)
    IN  IF ha.binding # hb.binding THEN CmpInt(ha.binding, hb.binding)
        ELSE IF ha.root.key # hb.root.key THEN CmpInt(ha.root.key, hb.root.key)
        ELSE CmpInt(ranges[SegIndex(a)].start, ranges[SegIndex(b)].start)

(* C4: in every state of a drain the cursors compare as (binding, key of   *)
(* the head, start offset of their segment) ascending; two cursors of      *)
(* different segments that tie on (binding, key) compare with the segment  *)
(* written earlier as the smaller, also after a cursor has moved into a    *)
(* later chunk of its segment.                                             *)
C4_CursorOrder ==
    Draining =>
        \A a, b \in LiveCursors :
            a # b =>
                /\ SegCmp(a, b) = ByStartOffset(a, b)
                /\ (DocKey(SegHead(a)) = DocKey(SegHead(b))
                     /\ SegIndex(a) < SegIndex(b)) => SegCmp(a, b) = -1

(* Two tied cursors in the heap, the earlier segment's cursor in its last  *)
(* chunk, which is not its first.                                          *)
C4_Witness ==
    /\ pc = "loop"
    /\ \E a, b \in heap :
         /\ DocKey(SegHead(a)) = DocKey(SegHead(b))
         /\ SegIndex(a) < SegIndex(b)
         /\ a.next.start = ranges[SegIndex(a)].end
         /\ Len(SegChunks(SegIndex(a))) >= 2
(* The heap SpillDrainer::new builds from the ranges table. *)
InitialHeap == { SegmentNew(ranges[i]) : i \in 1..Len(ranges) }

(* The inner loop of drain_while run to its end without an error. *)
RECURSIVE Gather(_, _, _, _)
Gather(h, binding, acc, mv) ==
    LET T == { o \in HeapTop(h) :
                 /\ SegHead(o).binding = binding
                 /\ CompareKey(acc.root, SegHead(o).root) = 0 }
    IN  IF T = {} THEN [heap |-> h, acc |-> acc, mv |-> mv]
        ELSE LET other == CHOOSE o \in T : TRUE
             IN  Gather((h \ {other}) \cup SegNext(other), binding,
                        Smash(acc.root, acc.flags, SegHead(other).root,
                              SegHead(other).flags),
                        TRUE)

(* The deliveries of one drain_while call on the heap h with a sink that   *)
(* always answers true.                                                    *)
RECURSIVE DrainAll(_)
DrainAll(h) ==
    IF h = {} THEN <<>>
    ELSE LET c == CHOOSE x \in HeapTop(h) : TRUE
             g == Gather(h \ {c}, SegHead(c).binding,
                         [root |-> SegHead(c).root, flags |-> SegHead(c).flags],
                         FALSE)
         IN  <<[binding   |-> SegHead(c).binding,
                doc       |-> g.acc.root,
                reduced   |-> IsReduced(g.acc.flags),
                validated |-> g.mv]>>
             \o DrainAll(g.heap \cup SegNext(c))

(* C5: pause and resume are transparent.  On a drainer none of whose calls *)
(* returned an error, whatever the sink answered so far, the deliveries    *)
(* made so far followed by the deliveries of one call with an always-true  *)
(* sink on the present heap are the deliveries of one call with an         *)
(* always-true sink on the initial heap: (binding, document, flag) agree,  *)
(* nothing is skipped and nothing is delivered twice.                      *)
C5_PauseTransparent ==
    (pc \in {"idle", "loop"} /\ ~failed) =>
        delivered \o DrainAll(heap) = DrainAll(InitialHeap)

(* A drain paused in the middle of the file, a segment still open. *)
C5_Witness ==
    /\ pc = "idle" /\ ret = "true" /\ ~failed
    /\ delivered # <<>>
    /\ \E s \in heap : s \notin InitialHeap
    /\ Len(DrainAll(InitialHeap)) = 3

(* C6 as claimed: a successful call returns true exactly if the heap is    *)
(* non-empty when it returns.                                              *)
C6_Original ==
    (pc = "idle" /\ ret \in {"true", "false"}) => (ret = "true" <=> heap # {})

(* C6: a successful drain_while call returns false only with an empty      *)
(* heap, and returns true whenever the heap is non-empty; it returns true  *)
(* exactly if the sink answered false in that call, so also, with an empty *)
(* heap, when the sink answered false on the last document of the file.    *)
C6_ReturnValue ==
    (pc = "idle" /\ ret \in {"true", "false"}) =>
        /\ ret = "false" => heap = {}
        /\ heap # {} => ret = "true"
        /\ ret = "true" <=> answer = "false"

(* The sink answered false on the last document. *)
C6_Witness ==
    pc = "idle" /\ ret = "true" /\ heap = {} /\ ~failed /\ Len(delivered) >= 2

(* Every document of every segment is part of a delivered document. *)
AllDelivered ==
    \A i \in 1..Len(ranges) :
        \A j \in 1..Len(SegDocs(i)) :
            \E n \in 1..Len(delivered) :
                /\ DeliveredKey(delivered[n]) = DocKey(SegDocs(i)[j])
                /\ \E m \in 1..Len(Leaves(delivered[n].doc)) :
                     Leaves(delivered[n].doc)[m] = SegDocs(i)[j].root.v

(* C7: drain_while returns false only once everything is drained: after    *)
(* Ok(false) the heap is empty, every document of every segment has been   *)
(* delivered (on a drainer none of whose calls returned an error), and     *)
(* every later call returns Ok(false) again without invoking the sink.     *)
C7_FalseIsFinal ==
    /\ [](ret = "false" =>
            /\ heap = {}
            /\ cur = NoCursor
            /\ ~failed => AllDelivered)
    /\ [][ret = "false" => (ret' = "false" /\ delivered' = delivered)]_vars

(* A call made after Ok(false) was returned. *)
C7_Witness ==
    pc = "loop" /\ ret = "false" /\ Len(delivered) >= 2

(* C8: the answer of the sink controls the continuation.  After the        *)
(* answer true the cursor of the delivered document is advanced and the    *)
(* call goes on with the next pass of its loop; after the answer false the *)
(* call delivers nothing more and returns, the cursor of the delivered     *)
(* document advanced in the heap it leaves behind.  (Only a failed read of *)
(* the advance ends the call otherwise, with SpillIO.)                     *)
C8_SinkControls ==
    [][(delivered' # delivered /\ answer' \in {"true", "false"}) =>
         \/ /\ ret' = "SpillIO" /\ pc' = "idle" /\ NextReads(cur)
         \/ /\ heap' = heap \cup SegNext(cur)
            /\ cur \notin heap'
            /\ IF answer' = "true"
               THEN pc' = "loop" /\ ret' = ret
               ELSE pc' = "idle" /\ ret' = "true"]_vars

(* In a resumed drain the sink answered true and the loop goes on. *)
C8_Witness ==
    pc = "loop" /\ answer = "true" /\ ret = "true" /\ heap # {}

(* C9: a delivered document was validated before the sink was invoked      *)
(* exactly if at least one reduction built it; a document alone in its     *)
(* (binding, key) reaches the sink without a validator call.               *)
C9_ValidateIffReduced ==
    \A i \in 1..Len(delivered) :
        delivered[i].validated <=> delivered[i].doc.kids # <<>>

(* Both a reduced and an unreduced document were delivered. *)
C9_Witness ==
    /\ \E i \in 1..Len(delivered) : delivered[i].validated
    /\ \E i \in 1..Len(delivered) : ~delivered[i].validated

(* C10: a step in which the reducer fails, or the validation of a reduced  *)
(* document fails or cannot be evaluated, ends the call with that error    *)
(* and without a sink invocation, the (binding, key) of the group never    *)
(* having been delivered; and no reduced document is ever delivered        *)
(* without having been validated.                                          *)
C10_ErrorsAbort ==
    /\ [][(pc = "poll" /\ pc' = "idle"
            /\ ret' \in {"Reduction", "SchemaError", "FailedValidation"}) =>
            /\ delivered' = delivered
            /\ \A i \in 1..Len(delivered) :
                 DeliveredKey(delivered[i]) # <<SegHead(cur).binding, doc.key>>]_vars
    /\ [](\A i \in 1..Len(delivered) :
            delivered[i].doc.kids # <<>> => delivered[i].validated)

(* A reduced document failed its validation after an earlier delivery. *)
C10_Witness ==
    /\ pc = "idle" /\ ret = "FailedValidation"
    /\ delivered # <<>> /\ smashed # <<>>

(* C11: a step of drain_while in which the advance of a cursor needs a     *)
(* read of the spill file and the advanced cursor does not come back to    *)
(* the heap ends the call.  For the cursor of a tied segment the call      *)
(* returns SpillIO (or the Reduction error of the smash before it) and the *)
(* sink is not invoked; for the cursor of the delivered document, the sink *)
(* having answered, the call returns SpillIO.  A call returns SpillIO in   *)
(* no other step, the loop is not resumed by that call and nothing is      *)
(* delivered after the failure.                                            *)
C11_SpillIOAborts ==
    /\ [][(pc = "poll" /\ pc' # "panic" /\ smashed' # smashed
            /\ \E other \in heap \ heap' :
                 NextReads(other) /\ ~(SegNext(other) \subseteq heap')) =>
            /\ pc' = "idle"
            /\ ret' \in {"SpillIO", "Reduction"}
            /\ delivered' = delivered]_vars
    /\ [][(pc = "poll" /\ pc' # "panic" /\ delivered' # delivered
            /\ answer' \in {"true", "false"}
            /\ NextReads(cur) /\ ~(SegNext(cur) \subseteq heap')) =>
            /\ pc' = "idle"
            /\ ret' = "SpillIO"
            /\ Len(delivered') = Len(delivered) + 1]_vars
    /\ [][(pc = "poll" /\ pc' = "idle" /\ ret' = "SpillIO") =>
            /\ failed' /\ cur' = NoCursor
            /\ \/ /\ smashed' # smashed /\ delivered' = delivered
                  /\ \E other \in heap \ heap' : NextReads(other)
               \/ /\ smashed' = smashed /\ heap' = heap /\ NextReads(cur)
                  /\ answer' \in {"true", "false"}]_vars
    /\ [][(pc = "idle" /\ ret = "SpillIO" /\ delivered' # delivered) =>
            FALSE]_vars

(* The advance of the delivered document's cursor failed after the sink    *)
(* answered true on a reduced document, a key of the file left undelivered. *)
C11_Witness ==
    /\ pc = "idle" /\ ret = "SpillIO" /\ answer = "true"
    /\ smashed # <<>> /\ delivered # <<>>
    /\ Len(delivered) < Cardinality(FileKeys)

(* ===================== properties of the writer ======================== *)
(* A step of a write_segment call that wrote to the file or panicked:      *)
(* wcall' holds its arguments.                                             *)
Wrote == pc = "write" /\ (spill' # spill \/ pc' = "panic")

(* The chunks a step appends to the spill file. *)
NewChunks == SubSeq(spill', Len(spill) + 1, Len(spill'))

(* The candidate chunks of a write_segment call none of whose I/O fails. *)
TryLog(segment, cts) ==
    WriteChunks(segment, RootLen(segment[1].root), cts,
                [chunks |-> <<>>, off |-> offset, tries |-> <<>>, at |-> 0],
                -1).tries

(* The documents read by head() and next() from a cursor to the end of its *)
(* segment, and whether the assertions of Segment::new hold on the way.    *)
RECURSIVE ReadBack(_)
ReadBack(seg) ==
    <<SegHead(seg)>> \o
        (IF SegNext(seg) = {} THEN <<>>
         ELSE ReadBack(CHOOSE s \in SegNext(seg) : TRUE))

RECURSIVE ReadsOk(_)
ReadsOk(seg) ==
    /\ NextReads(seg) => SegmentNewOk(seg.next)
    /\ \A s \in SegNext(seg) : ReadsOk(s)

(* C12: round trip.  After a write_segment call on a non-empty sorted      *)
(* slice, with any chunk_target_size, that recorded a range, Segment::new  *)
(* on that range and repeated head() / next() yield exactly the documents  *)
(* of the slice, in order, with the same binding, flags and content, the   *)
(* last next() returning None; every recorded range still reads back the   *)
(* documents written in it after later writes.                             *)
C12_RoundTrip ==
    /\ [][(Wrote /\ ranges' # ranges) =>
            (LET r == ranges[Len(ranges)]
             IN  /\ SegmentNewOk(r)
                 /\ ReadsOk(SegmentNew(r))
                 /\ ReadBack(SegmentNew(r)) = wcall.segment)']_vars
    /\ [](pc = "write" =>
            \A i \in 1..Len(ranges) :
                /\ SegmentNewOk(ranges[i])
                /\ ReadsOk(SegmentNew(ranges[i]))
                /\ ReadBack(SegmentNew(ranges[i])) = SegDocs(i))

(* A slice of three documents written as a chunk of two and a chunk of one. *)
C12_Witness ==
    /\ pc = "write" /\ wcall.result = "ok" /\ Len(wcall.segment) = 3
    /\ Len(SegChunks(Len(ranges))) = 2

(* C13: chunk bound.  Every chunk a write_segment call writes with more    *)
(* than one document has a raw (pre-compression) length of at most         *)
(* chunk_target_size.end; a chunk that exceeds it holds exactly one        *)
(* document.                                                               *)
C13_ChunkBound ==
    [][Wrote =>
         \A i \in 1..Len(NewChunks) :
             LET c == NewChunks[i]
             IN  /\ c.raw_len = RawLen(c.docs)
                 /\ Len(c.docs) > 1 => c.raw_len <= wcall'.cts[2]
                 /\ c.raw_len > wcall'.cts[2] => Len(c.docs) = 1]_vars

(* A chunk of two documents that fills its target exactly, and in another  *)
(* segment a chunk of one document above its target.                       *)
C13_Witness ==
    /\ pc = "write" /\ wcall.result = "ok"
    /\ \E i \in 1..Len(spill) :
         Len(spill[i].docs) = 2 /\ spill[i].raw_len = 6
    /\ wcall.cts = <<2, 3>>
    /\ \E i \in 1..Len(SegChunks(Len(ranges))) :
         SegChunks(Len(ranges))[i].raw_len > wcall.cts[2]

(* A candidate chunk that the retry branch rejected. *)
Rejected(try) == ~try.accepted

(* C14 as claimed: whenever write_segment rejects a candidate chunk of     *)
(* more than one document, the bytes-per-document estimate becomes         *)
(* strictly larger and the next candidate for the same position holds      *)
(* strictly fewer documents than the rejected one.                         *)
C14_Original ==
    [][Wrote =>
         LET t == TryLog(wcall'.segment, wcall'.cts)
         IN  \A i \in 1..Len(t) :
                 Rejected(t[i]) =>
                     /\ t[i].chunk_docs > 1
                     /\ t[i].raw_len > wcall'.cts[2]
                     /\ i < Len(t)
                     /\ t[i + 1].at = t[i].at
                     /\ t[i + 1].last > t[i].last
                     /\ t[i + 1].chunk_docs < t[i].chunk_docs]_vars

(* The positions of `segment` whose document alone archives to more than   *)
(* chunk_target_size.end bytes.                                            *)
Oversized(segment, cts) ==
    { j \in 1..Len(segment) : RawLen(<<segment[j]>>) > cts[2] }

(* C15: a document that alone exceeds chunk_target_size.end is not an      *)
(* error.  No candidate chunk of one document is ever rejected, whatever   *)
(* its size: such a document is written alone in a chunk of its own and    *)
(* the loop goes on behind it, so a call that returns Ok on a slice        *)
(* holding such documents has written every document of the slice.         *)
C15_OversizedAccepted ==
    [][Wrote =>
         LET segment == wcall'.segment
             cts     == wcall'.cts
             t       == TryLog(segment, cts)
         IN  /\ \A i \in 1..Len(t) :
                  t[i].chunk_docs = 1 =>
                      /\ t[i].accepted
                      /\ (i < Len(t) => t[i + 1].at = t[i].at + 1)
             /\ \A i \in 1..Len(NewChunks) :
                  \A j \in Oversized(segment, cts) :
                      (\E n \in 1..Len(NewChunks[i].docs) :
                           NewChunks[i].docs[n] = segment[j])
                        => Len(NewChunks[i].docs) = 1
             /\ (Oversized(segment, cts) # {} /\ wcall'.result = "ok") =>
                  /\ ranges' # ranges
                  /\ Flatten(NewChunks) = segment
                  /\ \A j \in Oversized(segment, cts) :
                       \E i \in 1..Len(NewChunks) :
                           NewChunks[i].docs = <<segment[j]>>]_vars

(* A slice of three documents, the second oversized, was written whole. *)
C15_Witness ==
    /\ pc = "write" /\ wcall.result = "ok" /\ Len(wcall.segment) = 3
    /\ Oversized(wcall.segment, wcall.cts) = {2}
    /\ Len(SegChunks(Len(ranges))) = 3

(* C16: write_segment on an empty slice is a no-op.  Every step that is a  *)
(* write_segment call on the empty slice, with any chunk_target_size,      *)
(* returns 0, leaves the spill file and its offset as they were and        *)
(* appends no range.                                                       *)
C16_EmptyNoOp ==
    [][\A cts \in ChunkTargets :
         WriteSegment(<<>>, cts) =>
             /\ wret' = 0
             /\ spill' = spill
             /\ offset' = offset
             /\ ranges' = ranges
             /\ pc' = "write"]_vars

(* An empty slice was written after two segments. *)
C16_Witness ==
    pc = "write" /\ wret = 0 /\ Len(ranges) = 2 /\ offset = ranges[2].end

(* a is a prefix of b. *)
Prefix(a, b) == Len(a) <= Len(b) /\ SubSeq(b, 1, Len(a)) = a

(* The file offset just behind a chunk. *)
ChunkEnd(c) == c.off + HeaderLen + c.lz4_len

(* The ranges of the table, in write order, ascend without overlap, and    *)
(* the chunks of the file lie one behind the other below the file offset.  *)
RangesAscending ==
    /\ \A i \in 1..Len(ranges) :
         /\ ranges[i].start < ranges[i].end
         /\ ranges[i].end <= offset
    /\ \A i \in 1..(Len(ranges) - 1) : ranges[i].end <= ranges[i + 1].start
    /\ \A i \in 1..Len(spill) : ChunkEnd(spill[i]) <= offset
    /\ \A i \in 1..(Len(spill) - 1) : ChunkEnd(spill[i]) <= spill[i + 1].off

(* A step changes no recorded range and no byte written: ranges and chunks *)
(* are only appended, at or behind the old file offset.                    *)
AppendOnly ==
    /\ Prefix(ranges, ranges')
    /\ Len(ranges') <= Len(ranges) + 1
    /\ Prefix(spill, spill')
    /\ offset <= offset'
    /\ \A i \in (Len(spill) + 1)..Len(spill') : spill'[i].off >= offset
    /\ \A i \in (Len(ranges) + 1)..Len(ranges') : ranges'[i].start = offset

(* The chunks of failed write_segment calls in front of the first range. *)
Leading == SelectSeq(spill, LAMBDA c : c.off < ranges[1].start)

(* C17 as claimed: the ranges ascend without overlap, the first range      *)
(* starts at offset 0, and ranges and bytes are only appended.             *)
C17_Original ==
    /\ [](/\ RangesAscending
          /\ ranges # <<>> => ranges[1].start = 0)
    /\ [][AppendOnly]_vars

(* C17: after any sequence of write_segment calls the ranges of the table, *)
(* in write order, are pairwise non-overlapping and ascending, each start  *)
(* at least the previous end; no step changes a recorded range or a byte   *)
(* already written; the first range starts at offset 0 if no earlier call  *)
(* failed after writing bytes, and otherwise right behind the bytes those  *)
(* failed calls left in the file.                                          *)
C17_AppendOnly ==
    /\ [](/\ RangesAscending
          /\ ranges # <<>> =>
               /\ Leading = <<>> => ranges[1].start = 0
               /\ Leading # <<>> =>
                    /\ Leading[1].off = 0
                    /\ ranges[1].start = ChunkEnd(Leading[Len(Leading)]))
    /\ [][AppendOnly]_vars

(* Two ranges recorded behind the bytes of a failed call. *)
C17_Witness ==
    pc = "write" /\ Len(ranges) = 2 /\ ranges[1].start > 0

(* The bytes of a sequence of chunks: 8 header bytes and the compressed    *)
(* length, for each.                                                       *)
RECURSIVE ChunkBytes(_)
ChunkBytes(chunks) ==
    IF chunks = <<>> THEN 0
    ELSE HeaderLen + Head(chunks).lz4_len + ChunkBytes(Tail(chunks))

(* The bytes of the accepted candidates of a log of candidate chunks. *)
RECURSIVE AcceptedBytes(_)
AcceptedBytes(tries) ==
    IF tries = <<>> THEN 0
    ELSE (IF Head(tries).accepted
          THEN HeaderLen + Lz4Len(Head(tries).raw_len) ELSE 0)
         + AcceptedBytes(Tail(tries))

(* C18: a write_segment call on a non-empty slice that returns Ok appends  *)
(* exactly one range [begin, end) to the table, begin and end being the    *)
(* file offsets before and after the call, and returns end - begin; that   *)
(* value is the sum, over the accepted chunks, of 8 header bytes plus the  *)
(* compressed length, the chunks lie back to back from begin, and the      *)
(* rejected candidates contribute no byte.  No other step appends a range. *)
C18_RangeAndBytes ==
    /\ [][(Wrote /\ wcall'.result = "ok") =>
            LET t == TryLog(wcall'.segment, wcall'.cts)
            IN  /\ ranges' = Append(ranges, [start |-> offset, end |-> offset'])
                /\ wret' = offset' - offset
                /\ wret' = ChunkBytes(NewChunks)
                /\ wret' = AcceptedBytes(t)
                /\ Len(NewChunks) = Cardinality({ i \in 1..Len(t) : t[i].accepted })
                /\ NewChunks[1].off = offset
                /\ \A i \in 1..(Len(NewChunks) - 1) :
                     NewChunks[i + 1].off = ChunkEnd(NewChunks[i])
                /\ ChunkEnd(NewChunks[Len(NewChunks)]) = offset']_vars
    /\ [][ranges' # ranges => (Wrote /\ wcall'.result = "ok")]_vars

(* A segment was written in two chunks after a candidate of three          *)
(* documents had been rejected.                                            *)
C18_Witness ==
    /\ pc = "write" /\ wcall.result = "ok" /\ Len(ranges) = 1
    /\ wret = ranges[1].end - ranges[1].start
    /\ Len(SegChunks(1)) = 2
    /\ \E i \in 1..Len(TryLog(wcall.segment, wcall.cts)) :
         Rejected(TryLog(wcall.segment, wcall.cts)[i])

(* C19: every chunk of a completed segment holds at least one whole        *)
(* document and the chunks partition the written slice: the documents of   *)
(* the chunks a successful call appended, concatenated in file order, are  *)
(* the input slice, none split, repeated or missing; and every recorded    *)
(* range holds at least one chunk and only chunks that lie wholly inside   *)
(* it, each of at least one document.                                      *)
C19_ChunksPartition ==
    /\ [][(Wrote /\ wcall'.result = "ok") =>
            /\ Flatten(NewChunks) = wcall'.segment
            /\ \A i \in 1..Len(NewChunks) : Len(NewChunks[i].docs) >= 1
            /\ \A i \in 1..Len(NewChunks) :
                 /\ offset <= NewChunks[i].off
                 /\ ChunkEnd(NewChunks[i]) <= offset']_vars
    /\ [](\A i \in 1..Len(ranges) :
            /\ SegChunks(i) # <<>>
            /\ \A j \in 1..Len(SegChunks(i)) :
                 /\ Len(SegChunks(i)[j].docs) >= 1
                 /\ ChunkEnd(SegChunks(i)[j]) <= ranges[i].end)

(* A slice of three documents written as three chunks of one document. *)
C19_Witness ==
    /\ pc = "write" /\ wcall.result = "ok" /\ Len(wcall.segment) = 3
    /\ Len(SegChunks(Len(ranges))) = 3
    /\ \A j \in 1..3 : Len(SegChunks(Len(ranges))[j].docs) = 1

(* The three outcomes of Segment::next on the cursor seg, for a step that  *)
(* takes seg out of the heap `from` and calls seg.next: with more than one *)
(* document left, the cursor over the remainder, and no read that could    *)
(* fail; with one document left and bytes left in the range, the cursor    *)
(* over the chunk decoded at next.start, or the error of the read; with    *)
(* one document left and no byte left, no cursor and no error.             *)
NextOutcome(seg, from) ==
    LET err == pc' = "idle" /\ ret' = "SpillIO"
    IN  /\ Len(seg.docs) > 1 =>
             /\ ~err
             /\ heap' = from \cup {[docs |-> Tail(seg.docs), next |-> seg.next]}
        /\ (Len(seg.docs) = 1 /\ seg.next.start < seg.next.end) =>
             \/ err /\ heap' = from
             \/ /\ ~err
                /\ HasChunkAt(seg.next.start)
                /\ LET c == spill[ChunkAt(seg.next.start)]
                   IN  heap' = from \cup
                         {[docs |-> c.docs,
                           next |-> [start |-> ChunkEnd(c), end |-> seg.next.end]]}
        /\ (Len(seg.docs) = 1 /\ seg.next.start >= seg.next.end) =>
             /\ ~err
             /\ heap' = from

(* C20: Segment::next has exactly three outcomes.  In every step of a      *)
(* drain that advances a cursor (the cursor of the delivered document      *)
(* after the sink answered, or the cursor of a tied segment after its      *)
(* document was reduced) the result is the remainder of the decoded chunk  *)
(* without I/O, or the next chunk decoded from the file, or Ok(None) at    *)
(* the end of the range, as the documents left and the bytes left decide.  *)
C20_NextOutcomes ==
    /\ [][(pc = "poll" /\ pc' # "panic" /\ delivered' # delivered
            /\ answer' \in {"true", "false"}) =>
            NextOutcome(cur, heap)]_vars
    /\ [][(pc = "poll" /\ pc' # "panic" /\ smashed' # smashed
            /\ ~(pc' = "idle" /\ ret' = "Reduction")) =>
            \E other \in heap \ heap' :
                NextOutcome(other, heap \ {other})]_vars

(* A drain ran to its end, without an error, over a segment of two chunks, *)
(* the first of two documents: each outcome occurred.                      *)
C20_Witness ==
    /\ pc = "idle" /\ ret = "false" /\ ~failed
    /\ \E i \in 1..Len(ranges) :
         /\ Len(SegChunks(i)) = 2
         /\ Len(SegChunks(i)[1].docs) = 2

(* ================ Segment::new on a damaged spill file ================= *)
(* The outcome of Segment::new(range) on a spill file of `offset` bytes,   *)
(* the checks taken in the order of the code: "panic" for an assertion     *)
(* that fails, "io" for an io::Error returned through `?` (a read past the *)
(* end of the file, or a block that LZ4 cannot decompress into raw_len     *)
(* bytes), "ok" for a cursor.                                              *)
SegmentNewResult(range) ==
    IF range.start = range.end THEN "panic"
    ELSE IF range.start + HeaderLen > offset THEN "io"
    ELSE LET c == spill[ChunkAt(range.start)]
         IN  IF range.start + HeaderLen + c.lz4_len > range.end THEN "panic"
             ELSE IF range.start + HeaderLen + c.lz4_len > offset THEN "io"
             ELSE IF c.raw_len < RawLen(c.docs) THEN "io"
             ELSE IF c.raw_len > RawLen(c.docs) THEN "panic"
             ELSE IF Len(c.docs) = 0 THEN "panic"
             ELSE "ok"

(* The damages a chunk of the file may have suffered. *)
Damages == {"none", "lz4_len", "raw_len_up", "raw_len_down", "truncated"}

(* The files write_segment leaves after one successful call on an empty    *)
(* file.                                                                   *)
WrittenFiles ==
    { w \in { WriteChunks(SortedSlice(S, [i \in S |-> {}], 1, 1),
                          RootLen(SortedSlice(S, [i \in S |-> {}], 1, 1)[1].root),
                          cts,
                          [chunks |-> <<>>, off |-> 0, tries |-> <<>>, at |-> 0],
                          -1) :
                S \in (SUBSET (1..Len(KeyOrder))) \ {{}}, cts \in ChunkTargets } :
        w.status = "ok" }

(* The chunks of a file whose chunk k suffered the damage `kind`: a header *)
(* whose lz4 length reaches one byte behind the end of the file, a header  *)
(* whose raw length is one more or one less than the archive, or none (a   *)
(* truncated file keeps its chunks and loses its last byte).               *)
Damaged(w, k, kind) ==
    [w.chunks EXCEPT ![k] =
        CASE kind = "lz4_len" ->
               [@ EXCEPT !.lz4_len = w.off - w.chunks[k].off - HeaderLen + 1]
          [] kind = "raw_len_up"   -> [@ EXCEPT !.raw_len = w.chunks[k].raw_len + 1]
          [] kind = "raw_len_down" -> [@ EXCEPT !.raw_len = w.chunks[k].raw_len - 1]
          [] OTHER                 -> @]

(* A caller is about to call Segment::new on the range from chunk j to the *)
(* end of a written file, one chunk of which may be damaged.               *)
InitOpen ==
    /\ pc = "open"
    /\ \E w \in WrittenFiles :
         \E k \in 1..Len(w.chunks), j \in 1..Len(w.chunks), kind \in Damages :
             /\ kind = "truncated" => k = Len(w.chunks)
             /\ spill = Damaged(w, k, kind)
             /\ offset = IF kind = "truncated" THEN w.off - 1 ELSE w.off
             /\ ranges = <<[start |-> w.chunks[j].off, end |-> w.off]>>
    /\ wret = 0
    /\ wcall = NoCall
    /\ heap = {}
    /\ cur = NoCursor
    /\ doc = NoDoc
    /\ flags = {}
    /\ must_validate = FALSE
    /\ ret = "none"
    /\ delivered = <<>>
    /\ smashed = <<>>
    /\ failed = FALSE
    /\ answer = "none"
    /\ alloc = NoArena

(* Segment::new(keys, r, range) on ranges[1]. *)
OpenSegment ==
    /\ pc = "open"
    /\ \/ /\ SegmentNewResult(ranges[1]) = "ok"
          /\ heap' = {SegmentNew(ranges[1])}
          /\ pc' = "opened"
          /\ ret' = ret
       \/ /\ SegmentNewResult(ranges[1]) = "panic"
          /\ pc' = "panic"
          /\ UNCHANGED <<heap, ret>>
       \/ /\ SegmentNewResult(ranges[1]) \in {"ok", "io"}
          /\ pc' = "dead"                    \* Err(io::Error)
          /\ ret' = "io::Error"
          /\ heap' = heap
    /\ UNCHANGED <<ranges, spill, offset, wret, wcall, cur, doc, flags,
                   must_validate, delivered, smashed, failed, answer, alloc>>

NextOpen == OpenSegment

SpecOpen == InitOpen /\ [][NextOpen]_vars

(* The chunk at range.start is damaged in one of the three ways: its       *)
(* header implies a next-chunk offset beyond range.end, its archive does   *)
(* not have the raw length of the header, or its payload lacks a byte.     *)
DamagedAt(range) ==
    LET c == spill[ChunkAt(range.start)]
    IN  \/ ChunkEnd(c) > range.end
        \/ c.raw_len # RawLen(c.docs)
        \/ ChunkEnd(c) > offset

(* C21 as claimed: Segment::new on a chunk whose header implies a          *)
(* next-chunk offset beyond range.end, whose decompressed size differs     *)
(* from the raw length of the header, or whose payload is truncated by one *)
(* byte, returns a CorruptChunk error value and never a cursor.            *)
C21_Original ==
    (pc # "open" /\ DamagedAt(ranges[1])) =>
        (pc = "dead" /\ ret = "CorruptChunk" /\ heap = {})

(* What holds of the code for C21: a damaged chunk never yields a cursor;  *)
(* the call panics or returns an io::Error.                                *)
NeverACursor ==
    (pc # "open" /\ DamagedAt(ranges[1])) =>
        (heap = {} /\ (pc = "panic" \/ (pc = "dead" /\ ret = "io::Error")))

(* ================= further properties of the drain ===================== *)
(* C22: no partially reduced document is exposed.  In every step that      *)
(* invokes the sink for a (binding, key), no cursor in the heap, neither   *)
(* when the sink is invoked nor after the step, has a head document of     *)
(* that (binding, key); and on a drainer none of whose calls returned an   *)
(* error every delivered document is built from the documents of all the   *)
(* segments that hold its key.                                             *)
C22_NoPartial ==
    /\ [][delivered' # delivered =>
            LET d == delivered'[Len(delivered')]
            IN  /\ DeliveredKey(d) = <<SegHead(cur).binding, doc.key>>
                /\ \A s \in heap \cup heap' :
                     DocKey(SegHead(s)) # DeliveredKey(d)]_vars
    /\ [](~failed =>
            \A i \in 1..Len(delivered) :
                LET L == Leaves(delivered[i].doc)
                IN  { L[j] : j \in 1..Len(L) } = Holders(DeliveredKey(delivered[i])))

(* A document reduced from two segments was delivered while a cursor       *)
(* stayed in the heap.                                                     *)
C22_Witness ==
    /\ pc = "loop" /\ ~failed /\ heap # {}
    /\ Len(delivered) = 1
    /\ Len(Leaves(delivered[1].doc)) = 2

(* The cursors of the heap that read segment i. *)
CursorsOf(i) == { s \in heap : SegIndex(s) = i }

(* The documents of segment i whose (binding, key) was not delivered. *)
Undelivered(i) ==
    SelectSeq(SegDocs(i),
              LAMBDA d : \A n \in 1..Len(delivered) :
                             DeliveredKey(delivered[n]) # DocKey(d))

(* C23: between drain_while calls, on a drainer none of whose calls        *)
(* returned an error, the heap holds exactly one cursor for each segment   *)
(* that still has undelivered documents, which reads exactly those         *)
(* documents, and no cursor for a segment that was delivered whole; right  *)
(* after SpillDrainer::new it holds exactly one cursor per range, at the   *)
(* first chunk of the range.                                               *)
C23_OneCursorPerSegment ==
    /\ (pc = "idle" /\ ~failed) =>
          /\ \A s \in heap : \E i \in 1..Len(ranges) :
                 ranges[i].start < s.next.start /\ s.next.start <= ranges[i].end
          /\ \A i \in 1..Len(ranges) :
                 IF Undelivered(i) # <<>>
                 THEN /\ Cardinality(CursorsOf(i)) = 1
                      /\ \A s \in CursorsOf(i) : ReadBack(s) = Undelivered(i)
                 ELSE CursorsOf(i) = {}
    /\ (pc = "idle" /\ ret = "none") =>
          /\ Cardinality(heap) = Len(ranges)
          /\ heap = InitialHeap
          /\ \A i \in 1..Len(ranges) :
                 \A s \in CursorsOf(i) : ReadBack(s) = SegDocs(i)

(* Between two calls, one segment delivered whole and one partly. *)
C23_Witness ==
    /\ pc = "idle" /\ ret = "true" /\ ~failed /\ Len(ranges) = 2
    /\ \E i \in 1..2 : Undelivered(i) = <<>>
    /\ \E i \in 1..2 : Undelivered(i) # <<>> /\ Undelivered(i) # SegDocs(i)

RECURSIVE AppendOf(_)
(* The array `v` of a root under the append strategy of the test schema:   *)
(* the content of a document read from the file, or the arrays of the two  *)
(* operands of a reduction, the base first.                                *)
AppendOf(root) ==
    IF root.kids = <<>> THEN <<root.v>>
    ELSE IF root.swap
         THEN AppendOf(root.kids[2]) \o AppendOf(root.kids[1])
         ELSE AppendOf(root.kids[1]) \o AppendOf(root.kids[2])

C25_Original ==
    [][Wrote =>
         LET t == TryLog(wcall'.segment, wcall'.cts)
         IN  /\ wcall'.cts[1] <= wcall'.cts[2]
             /\ \A i \in 1..Len(t) :
                  (t[i].chunk_docs > 1 /\ t[i].raw_len > wcall'.cts[2]) =>
                      (t[i].raw_len \div t[i].chunk_docs) > t[i].last
             /\ pc' # "panic"]_vars

(* C26 as claimed: write_segment terminates with all documents written.    *)
(* For every call on a non-empty slice none of whose I/O fails, the        *)
(* candidates tried are finitely many, every accepted chunk holds at least *)
(* one document, and the loop ends having written the whole slice.         *)
C26_Original ==
    [][Wrote =>
         LET segment == wcall'.segment
             w == WriteChunks(segment, RootLen(segment[1].root), wcall'.cts,
                              [chunks |-> <<>>, off |-> offset,
                               tries |-> <<>>, at |-> 0], -1)
         IN  /\ \A i \in 1..Len(w.tries) :
                  w.tries[i].accepted => w.tries[i].chunk_docs >= 1
             /\ \A i \in 1..Len(w.tries) :
                  ~w.tries[i].accepted =>
                      /\ i < Len(w.tries)
                      /\ w.tries[i + 1].last > w.tries[i].last
             /\ w.status = "ok"
             /\ Flatten(w.chunks) = segment]_vars

(* C27: the sizing of the candidate chunks.  In every write_segment call   *)
(* the first candidate is sized with the archived size of the first        *)
(* document's root as the estimate; every candidate holds                  *)
(* chunk_target_size.start divided by the estimate (rounded down)          *)
(* documents, at least 1 and at most the documents that remain; and the    *)
(* next candidate is sized with the encoded size of the last candidate     *)
(* divided by its document count, starting behind it if it was accepted    *)
(* and at the same position if it was rejected.                            *)
C27_ChunkSizing ==
    [][Wrote =>
         LET segment == wcall'.segment
             cts     == wcall'.cts
             t       == TryLog(segment, cts)
         IN  /\ t[1].last = RootLen(segment[1].root)
             /\ t[1].at = 0
             /\ \A i \in 1..Len(t) :
                  LET remaining == Len(segment) - t[i].at
                      quotient  == cts[1] \div t[i].last
                  IN  /\ t[i].chunk_docs >= 1
                      /\ t[i].chunk_docs <= remaining
                      /\ t[i].chunk_docs =
                           (IF quotient < 1 THEN 1
                            ELSE IF quotient > remaining THEN remaining
                            ELSE quotient)
                      /\ t[i].raw_len =
                           RawLen(SubSeq(segment, t[i].at + 1,
                                         t[i].at + t[i].chunk_docs))
             /\ \A i \in 1..(Len(t) - 1) :
                  /\ t[i + 1].last = t[i].raw_len \div t[i].chunk_docs
                  /\ t[i + 1].at =
                       t[i].at + (IF t[i].accepted THEN t[i].chunk_docs ELSE 0)]_vars

(* A call wrote an oversized document alone in its chunk and the chunk     *)
(* after it brought the estimate down again.                               *)
C27_Witness ==
    /\ pc = "write" /\ wcall.result = "ok"
    /\ LET t == WriteChunks(wcall.segment, RootLen(wcall.segment[1].root),
                            wcall.cts,
                            [chunks |-> <<>>, off |-> 0, tries |-> <<>>, at |-> 0],
                            -1).tries
       IN  \E i \in 2..Len(t) :
               /\ t[i - 1].accepted /\ t[i - 1].chunk_docs = 1
               /\ t[i - 1].raw_len > wcall.cts[2]
               /\ t[i].accepted
               /\ t[i].raw_len \div t[i].chunk_docs < t[i].last

(* The errors a drain_while call returns. *)
DrainErrors ==
    {"SpillIO", "Reduction", "SchemaError", "FailedValidation", "Callback"}

(* C28: draining makes progress and ends.  A drain_while call that returns *)
(* without having invoked the sink returns an error, or started with an    *)
(* empty heap and returns Ok(false); a call that starts with a non-empty   *)
(* heap comes to invoke the sink or to return; and on a drainer none of    *)
(* whose calls returns an error, a caller that calls again after every     *)
(* return eventually gets Ok(false), whatever the sink answers.            *)
C28_Progress ==
    /\ [][(pc \in {"loop", "poll"} /\ pc' = "idle" /\ answer' = "none") =>
            \/ ret' \in DrainErrors
            \/ pc = "loop" /\ heap = {} /\ ret' = "false"]_vars
    /\ (pc = "loop" /\ answer = "none" /\ heap # {})
          ~> (answer # "none" \/ pc = "idle" \/ pc = "panic")
    /\ (pc = "idle")
          ~> ((pc = "idle" /\ ret = "false") \/ failed \/ pc = "panic")

(* After three deliveries the sink answered false on the last document of  *)
(* the file, and the call after it returned Ok(false) without invoking the *)
(* sink.                                                                   *)
C28_Witness ==
    /\ pc = "idle" /\ ret = "false" /\ ~failed /\ answer = "none"
    /\ Len(delivered) = 3

(* The reducer invocations made for a (binding, key). *)
SmashesOf(bk) ==
    { i \in 1..Len(smashed) : <<smashed[i].binding, smashed[i].lhs.key>> = bk }

(* C29: a reduction chain takes at most one document from each segment.    *)
(* The documents joined by a reducer invocation come from pairwise         *)
(* different segments; while a group is reduced, the cursor that supplied  *)
(* its first document is out of the heap, as is every other cursor of its  *)
(* segment, so it is not compared with the accumulator again; and on a     *)
(* drainer none of whose calls returned an error, the reducer was invoked  *)
(* for a delivered (binding, key) once for each segment that holds the key *)
(* but the first.                                                          *)
C29_OnePerSegment ==
    /\ \A i \in 1..Len(smashed) :
         LET L == Leaves(smashed[i].lhs) \o Leaves(smashed[i].rhs)
         IN  \A a, b \in 1..Len(L) : a # b => L[a] # L[b]
    /\ pc = "poll" =>
         /\ cur \notin heap
         /\ \A s \in heap : SegIndex(s) # SegIndex(cur)
    /\ ~failed =>
         /\ pc = "poll" =>
               Cardinality(SmashesOf(<<SegHead(cur).binding, doc.key>>))
                 = Len(Leaves(doc)) - 1
         /\ \A n \in 1..Len(delivered) :
               Cardinality(SmashesOf(DeliveredKey(delivered[n])))
                 = Cardinality(Holders(DeliveredKey(delivered[n]))) - 1

(* One key held by two segments and one held by a single segment were      *)
(* delivered: one reducer invocation in all.                               *)
C29_Witness ==
    /\ pc = "idle" /\ ret = "false" /\ ~failed
    /\ Len(delivered) = 2 /\ Len(smashed) = 1
    /\ Len(ranges) = 2

(* C30: the third argument of the sink is the REDUCED bit of the           *)
(* accumulated flags.  In every step that invokes the sink: for a document *)
(* that was merged with no other it is the REDUCED bit the document was    *)
(* written with, whether or not any reduction took place in the drain; for *)
(* a merged document it is the REDUCED bit of the flags the last reducer   *)
(* invocation returned.                                                    *)
C30_ReducedArgument ==
    [][delivered' # delivered =>
         LET d == delivered'[Len(delivered')]
         IN  /\ d.reduced = IsReduced(flags)
             /\ d.doc.kids = <<>> =>
                  /\ d.doc = SegHead(cur).root
                  /\ d.reduced = IsReduced(SegHead(cur).flags)
                  /\ \E i \in 1..Len(ranges) :
                       \E j \in 1..Len(SegDocs(i)) :
                           /\ SegDocs(i)[j].root = d.doc
                           /\ SegDocs(i)[j].binding = d.binding
                           /\ d.reduced = IsReduced(SegDocs(i)[j].flags)
             /\ d.doc.kids # <<>> =>
                  LET c == smashed[Len(smashed)]
                      out == Smash(c.lhs, c.lhs_flags, c.rhs, c.rhs_flags)
                  IN  /\ out.root = d.doc
                      /\ d.reduced = IsReduced(out.flags)]_vars

(* A drain without any reduction delivered a document written REDUCED with *)
(* true and a document written without the bit with false.                 *)
C30_Witness ==
    /\ pc = "idle" /\ ret = "false" /\ smashed = <<>>
    /\ \E i, j \in 1..Len(delivered) :
         delivered[i].reduced /\ ~delivered[j].reduced

(* ===================== resources of the drain ========================== *)
(* C31: the reduction arena is per merge group.  Every step that pops the  *)
(* cursor of a group creates an empty arena; while the group is merged the *)
(* arena holds exactly the roots the reducer built for this group, one for *)
(* each of its invocations, all of the key of the group, the accumulated   *)
(* document being the last of them; and no arena is alive at the head of   *)
(* the outer loop, between calls, or after an error return, so none serves *)
(* two groups.                                                             *)
C31_ArenaPerGroup ==
    /\ [][(pc = "loop" /\ pc' = "poll") => alloc' = NewArena]_vars
    /\ [](pc \in {"write", "idle", "loop", "dead"} => alloc = NoArena)
    /\ [](pc = "poll" =>
            LET n == Len(alloc.nodes)
            IN  /\ alloc.live
                /\ n = Len(Leaves(doc)) - 1
                /\ n <= Len(smashed)
                /\ \A k \in 1..n :
                     LET c == smashed[Len(smashed) - n + k]
                     IN  /\ alloc.nodes[k] =
                              Smash(c.lhs, c.lhs_flags, c.rhs, c.rhs_flags).root
                         /\ alloc.nodes[k].key = SegHead(cur).root.key
                         /\ c.binding = SegHead(cur).binding
                /\ n > 0 => doc = alloc.nodes[n]
                /\ n = 0 => doc = SegHead(cur).root)

(* The second group of a call was popped after a first group that was     *)
(* reduced: its arena is empty and does not hold the root of the first.    *)
C31_Witness ==
    /\ pc = "poll" /\ answer = "true"
    /\ Len(delivered) = 1 /\ delivered[1].doc.kids # <<>>
    /\ alloc = NewArena

(* The live cursors that read segment i. *)
LiveOf(i) == { s \in LiveCursors : SegIndex(s) = i }

(* Document j of segment i is part of a delivered document. *)
WasDelivered(i, j) ==
    \E n \in 1..Len(delivered) :
        /\ DeliveredKey(delivered[n]) = DocKey(SegDocs(i)[j])
        /\ \E m \in 1..Len(Leaves(delivered[n].doc)) :
               Leaves(delivered[n].doc)[m] = i

(* C32: the heap is not restored on an error.  A step in which drain_while *)
(* returns an error of the reducer, the validator or the sink drops the    *)
(* cursor popped for the group: neither it, nor its advance, nor any other *)
(* cursor of its segment is in the heap afterwards, and the heap gains no  *)
(* cursor.  A segment without a live cursor never gets one again, and      *)
(* every delivered document is built from the head of a cursor popped from *)
(* the heap and the heads of cursors tied with it in the heap, so neither  *)
(* the document of the dropped cursor nor the documents behind it in its   *)
(* segment are delivered by a later call.                                  *)
C32_NoRestore ==
    /\ [][(pc = "poll" /\ pc' = "idle" /\ ret' \in
              {"Reduction", "SchemaError", "FailedValidation", "Callback"}) =>
            /\ cur' = NoCursor
            /\ heap' \subseteq heap
            /\ cur \notin heap'
            /\ SegNext(cur) \cap heap' = {}
            /\ \A s \in heap' : SegIndex(s) # SegIndex(cur)]_vars
    /\ [][Draining =>
            \A i \in 1..Len(ranges) :
                LiveOf(i) = {} => (\A s \in heap' : SegIndex(s) # i)]_vars
    /\ [][(pc = "loop" /\ pc' = "poll") => cur' \in heap]_vars
    /\ [][smashed' # smashed =>
            \E other \in heap :
                smashed'[Len(smashed')].rhs = SegHead(other).root]_vars
    /\ [][delivered' # delivered =>
            /\ delivered'[Len(delivered')].doc = doc
            /\ Leaves(doc)[1] = SegIndex(cur)]_vars

(* A call returned an error after the first document of a segment of two  *)
(* was passed to the sink; later calls drained the file to Ok(false), and  *)
(* the second document of that segment was never delivered.                *)
C32_Witness ==
    /\ pc = "idle" /\ ret = "false" /\ failed
    /\ Len(delivered) >= 2
    /\ \E i \in 1..Len(ranges) :
         /\ Len(SegDocs(i)) = 2
         /\ WasDelivered(i, 1)
         /\ ~WasDelivered(i, 2)

(* =================== ranges and cursors of a segment =================== *)
(* C33: every range a SpillWriter records is non-empty.  A range is only   *)
(* recorded by a call on a non-empty slice and spans at least one chunk,   *)
(* each chunk taking its 8 header bytes and more; so the step from the     *)
(* writer to the drainer (into_parts, SpillDrainer::new) never fails the   *)
(* assertion range.start != range.end of Segment::new, nor another one: it *)
(* yields the drainer or an I/O error.                                     *)
C33_RangesNonEmpty ==
    /\ [](\A i \in 1..Len(ranges) :
            /\ ranges[i].start < ranges[i].end
            /\ ~IsEmpty(ranges[i])
            /\ SegChunks(i) # <<>>
            /\ ranges[i].end - ranges[i].start
                 > HeaderLen * Len(SegChunks(i)))
    /\ [][ranges' # ranges => wcall'.segment # <<>>]_vars
    /\ [][(pc = "write" /\ pc' # "write" /\ wcall'.result # "panic") =>
            /\ pc' \in {"idle", "dead"}
            /\ \A i \in 1..Len(ranges) : SegmentNewOk(ranges[i])
            /\ pc' = "idle" => Cardinality(heap') = Len(ranges)]_vars

(* A drainer was built from two ranges after a last write_segment call on  *)
(* the empty slice.                                                        *)
C33_Witness ==
    /\ pc = "idle" /\ ret = "none" /\ wret = 0
    /\ Len(ranges) = 2 /\ Cardinality(heap) = 2

(* The chunks of the file that lie in no recorded range: the chunks that   *)
(* write_segment calls wrote before they failed.                           *)
Orphans ==
    SelectSeq(spill, LAMBDA c :
        \A i \in 1..Len(ranges) : ~(ranges[i].start <= c.off /\ c.off < ranges[i].end))

(* C34: a write_segment call that fails with an I/O error after it wrote   *)
(* chunks records no range and leaves the file offset behind its chunks; a *)
(* later successful call records a range that starts at that offset,       *)
(* behind every chunk of the file; so no recorded range ever overlaps the  *)
(* chunks of a failed call.                                                *)
C34_FailedWriteFrame ==
    /\ [][(Wrote /\ wcall'.result = "err") =>
            /\ ranges' = ranges
            /\ pc' = "write"
            /\ Prefix(NewChunks,
                      WriteChunks(wcall'.segment, RootLen(wcall'.segment[1].root),
                                  wcall'.cts,
                                  [chunks |-> <<>>, off |-> offset,
                                   tries |-> <<>>, at |-> 0], -1).chunks)
            /\ offset' = ChunkEnd(NewChunks[Len(NewChunks)])
            /\ \A i \in 1..Len(ranges') :
                 ranges'[i].end <= NewChunks[1].off]_vars
    /\ [][(Wrote /\ wcall'.result = "ok") =>
            /\ ranges'[Len(ranges')].start = offset
            /\ \A k \in 1..Len(spill) : ChunkEnd(spill[k]) <= offset]_vars
    /\ [](\A k \in 1..Len(Orphans) :
            \A i \in 1..Len(ranges) :
                \/ ChunkEnd(Orphans[k]) <= ranges[i].start
                \/ ranges[i].end <= Orphans[k].off)

(* Between two recorded ranges lie the chunks of a call that failed. *)
C34_Witness ==
    /\ pc = "write" /\ wcall.result = "ok" /\ Len(ranges) = 2
    /\ ranges[1].end < ranges[2].start
    /\ \E k \in 1..Len(Orphans) :
         ranges[1].end <= Orphans[k].off /\ ChunkEnd(Orphans[k]) <= ranges[2].start

(* The documents b are the last documents of a. *)
Suffix(b, a) ==
    Len(b) <= Len(a) /\ SubSeq(a, Len(a) - Len(b) + 1, Len(a)) = b

(* C35: the chunks of a segment tile its range.  The first chunk of a      *)
(* recorded range starts at range.start, each chunk starts where the one   *)
(* before it ends, 8 bytes and the compressed length further, and the last *)
(* one ends at range.end.  Every live cursor of a drain reads one chunk of *)
(* its segment, and its remaining range goes from the end of that chunk to *)
(* the end of the range of the segment, start <= end, with equality        *)
(* exactly on the last chunk; so no assertion of Segment::new fails in a   *)
(* drain of segments that write_segment wrote.                             *)
C35_ChunksTileRange ==
    /\ \A i \in 1..Len(ranges) :
         LET cs == SegChunks(i)
         IN  /\ cs # <<>>
             /\ cs[1].off = ranges[i].start
             /\ \A k \in 1..(Len(cs) - 1) :
                  cs[k + 1].off = cs[k].off + HeaderLen + cs[k].lz4_len
             /\ cs[Len(cs)].off + HeaderLen + cs[Len(cs)].lz4_len = ranges[i].end
    /\ Draining =>
         \A s \in LiveCursors :
             \E i \in 1..Len(ranges) :
                 \E k \in 1..Len(SegChunks(i)) :
                     LET c == SegChunks(i)[k]
                     IN  /\ s.docs # <<>>
                         /\ Suffix(s.docs, c.docs)
                         /\ s.next.start = c.off + HeaderLen + c.lz4_len
                         /\ s.next.end = ranges[i].end
                         /\ s.next.start <= s.next.end
                         /\ s.next.start = s.next.end <=> k = Len(SegChunks(i))
    /\ (pc = "panic" => wcall.result = "panic")

(* A cursor reads the second of the three chunks of its segment. *)
C35_Witness ==
    /\ pc = "loop"
    /\ \E s \in heap :
         /\ Len(SegChunks(SegIndex(s))) = 3
         /\ s.next.start = SegChunks(SegIndex(s))[3].off

(* C36: the cursor ordering is a strict total order on the live cursors of *)
(* one heap.  Two distinct cursors of a heap never compare Equal, the      *)
(* comparison is antisymmetric and transitive on them, and their remaining *)
(* ranges belong to different segments; the heap therefore has exactly one *)
(* least cursor whenever it is not empty.                                  *)
C36_StrictTotalOrder ==
    Draining =>
        /\ \A a \in heap : SegCmp(a, a) = 0
        /\ \A a, b \in heap :
             a # b =>
                 /\ SegCmp(a, b) # 0
                 /\ SegCmp(a, b) = -SegCmp(b, a)
                 /\ SegIndex(a) # SegIndex(b)
                 /\ a.next.start # b.next.start
        /\ \A a, b, c \in heap :
             (SegCmp(a, b) < 0 /\ SegCmp(b, c) < 0) => SegCmp(a, c) < 0
        /\ heap # {} => Cardinality(HeapTop(heap)) = 1

(* Three cursors with documents of the same key are in the heap. *)
C36_Witness ==
    /\ pc = "loop"
    /\ Cardinality(heap) = 3
    /\ \A a, b \in heap :
         /\ SegHead(a).binding = SegHead(b).binding
         /\ CompareKey(SegHead(a).root, SegHead(b).root) = 0

(* ------------------------ decoded chunks in memory ------------------------ *)
(* Segment::next: the decoded chunks the call holds at its peak.  `self` is  *)
(* taken apart into locals, and the local zz_backing of the exhausted chunk  *)
(* lives to the end of the function, so it is still held while Segment::new  *)
(* allocates and decompresses the buffer of the next chunk.                  *)
NextBuffers(seg) == IF NextReads(seg) THEN 2 ELSE 1

(* The step calls seg.next(..): `other` after a reduction that succeeded,  *)
(* `cur` after the sink took the document.                                 *)
CallsNext(seg) ==
    /\ pc = "poll"
    /\ \/ /\ smashed' # smashed
          /\ seg \in HeapTop(heap)
          /\ ~(pc' = "idle" /\ ret' = "Reduction")
       \/ /\ delivered' # delivered
          /\ seg = cur
          /\ answer' \in {"true", "false"}

(* Between the steps of a drain every live cursor holds one decoded chunk, *)
(* the one its documents belong to, and there are no more live cursors     *)
(* than segments.                                                          *)
OneChunkPerCursor ==
    Draining =>
        /\ Cardinality(LiveCursors) <= Len(ranges)
        /\ \A s \in LiveCursors :
             Cardinality({ k \in 1..Len(spill) :
                             /\ Suffix(s.docs, spill[k].docs)
                             /\ s.next.start = ChunkEnd(spill[k]) }) = 1

====
